---- MODULE Spec2Model ----
(***************************************************************************)
(* A model of gen_req.py: the installed-package collector                  *)
(* (get_installed_packages), the import scanner (get_imported_packages),   *)
(* the manifest writer (generate_requirements_txt) and main.               *)
(*                                                                         *)
(* Python strings are sequences of one-character strings, so that split,   *)
(* lower, replace, endswith and the regular expression are computed        *)
(* character by character as the interpreter computes them.                *)
(*                                                                         *)
(* Scope: project_path names an existing directory in which the manifest   *)
(* can be opened for writing; the failures modelled are the ones the code  *)
(* can meet before that point (a listing that cannot be run, decoded or    *)
(* parsed, a source file that cannot be read as text).                     *)
(***************************************************************************)
EXTENDS Integers, Sequences, FiniteSets, Bags, TLC

VARIABLES
    pc,           \* position in main: collect, global, scan, walk, write, emit, done, crashed
    error,        \* "none", or the uncaught exception that ended the run
    venv_folder,  \* args.venv_folder: [given, value], None when not given
    venvIsDir,    \* os.path.isdir(os.path.join(project_path, venv_folder))
    venvRun,      \* what subprocess.run([<venv>/bin/pip, "list"]) gives
    globalRun,    \* what subprocess.run(["pip", "list"]) gives
    calls,        \* the listings invoked so far, in order
    installed,    \* installed_packages: a dict, kept in insertion order
    tree,         \* the directory tree under project_path
    walkStack,    \* directories os.walk has still to yield
    readFiles,    \* the files opened so far: <<directory, index>>
    imported,     \* imported_packages: a set
    todo,         \* the imported packages the writer has still to iterate over
    manifest,     \* requirements.txt: [exists, lines]
    printed,      \* whether the final message was printed
    runs,         \* completed runs of the tool on this project
    prevManifest  \* requirements.txt as the previous run left it

vars == <<pc, error, venv_folder, venvIsDir, venvRun, globalRun, calls, installed,
          tree, walkStack, readFiles, imported, todo, manifest, printed, runs,
          prevManifest>>

----------------------------------------------------------------------------
(* Strings *)

NL == "\n"
SP == " "
TAB == "\t"

\* str.isspace for the characters of the model's alphabet (regex \s, str.split()).
IsSpace(c) == c \in {SP, NL, TAB}

UpperChars == <<"A","B","C","D","E","F","G","H","I","J","K","L","M",
                "N","O","P","Q","R","S","T","U","V","W","X","Y","Z">>
LowerChars == <<"a","b","c","d","e","f","g","h","i","j","k","l","m",
                "n","o","p","q","r","s","t","u","v","w","x","y","z">>

LowerChar(c) ==
    IF \E i \in 1..Len(UpperChars) : UpperChars[i] = c
    THEN LowerChars[CHOOSE i \in 1..Len(UpperChars) : UpperChars[i] = c]
    ELSE c

\* str.lower()
Lower(s) == [i \in 1..Len(s) |-> LowerChar(s[i])]

\* str.replace(a, b) for one-character a and b
Replace(s, a, b) == [i \in 1..Len(s) |-> IF s[i] = a THEN b ELSE s[i]]

\* The end of the run of whitespace starting at i: the first index at or after i
\* that holds no whitespace (Len(s) + 1 when the run reaches the end).
RECURSIVE SpaceRunEnd(_, _)
SpaceRunEnd(s, i) ==
    IF i <= Len(s) /\ IsSpace(s[i]) THEN SpaceRunEnd(s, i + 1) ELSE i

\* The same for a run of characters that are no whitespace.
RECURSIVE TokenRunEnd(_, _)
TokenRunEnd(s, i) ==
    IF i <= Len(s) /\ ~IsSpace(s[i]) THEN TokenRunEnd(s, i + 1) ELSE i

\* s[i:j] with 1-based i and exclusive j
Slice(s, i, j) == IF j <= i THEN <<>> ELSE SubSeq(s, i, j - 1)

\* str.split(sep) for a one-character sep: always at least one piece.
RECURSIVE SplitFrom(_, _, _, _)
SplitFrom(s, sep, start, i) ==
    IF i > Len(s) THEN <<Slice(s, start, i)>>
    ELSE IF s[i] = sep
         THEN <<Slice(s, start, i)>> \o SplitFrom(s, sep, i + 1, i + 1)
         ELSE SplitFrom(s, sep, start, i + 1)

SplitOn(s, sep) == SplitFrom(s, sep, 1, 1)

\* str.split(): runs of whitespace separate, none at the ends gives no empty piece.
RECURSIVE SplitWSFrom(_, _)
SplitWSFrom(s, i) ==
    LET b == SpaceRunEnd(s, i)
        e == TokenRunEnd(s, b)
    IN IF b > Len(s) THEN <<>>
       ELSE <<Slice(s, b, e)>> \o SplitWSFrom(s, e)

SplitWS(s) == SplitWSFrom(s, 1)

\* "\n".join(lines): how a listing or a file's text is laid out.
RECURSIVE JoinLines(_)
JoinLines(lines) ==
    IF lines = <<>> THEN <<>>
    ELSE IF Len(lines) = 1 THEN lines[1]
    ELSE lines[1] \o <<NL>> \o JoinLines(Tail(lines))

\* list[n:]
DropFirst(s, n) == IF Len(s) <= n THEN <<>> ELSE SubSeq(s, n + 1, Len(s))

\* str.endswith
EndsWith(s, suffix) ==
    /\ Len(s) >= Len(suffix)
    /\ SubSeq(s, Len(s) - Len(suffix) + 1, Len(s)) = suffix

----------------------------------------------------------------------------
(* Installed-Package Collector: get_installed_packages *)

\* The dict is a sequence of [name, version] in insertion order, names unique.
DictKeys(d) == {d[i].name : i \in 1..Len(d)}

DictGet(d, k) == d[CHOOSE i \in 1..Len(d) : d[i].name = k].version

\* A slip: a key already present keeps its first value.
DictSetKeepFirst(d, k, v) ==
    IF k \in DictKeys(d) THEN d ELSE Append(d, [name |-> k, version |-> v])

\* d[k] = v: a present key keeps its place and takes the new value.
DictSet(d, k, v) ==
    IF k \in DictKeys(d)
    THEN [i \in 1..Len(d) |-> IF d[i].name = k THEN [name |-> k, version |-> v] ELSE d[i]]
    ELSE Append(d, [name |-> k, version |-> v])

\* name = parts[0].lower().replace("-", "_")
NormalizeInstalledName(token) == Replace(Lower(token), "-", "_")

\* The lines of the listing after the two header lines.
PackageLines(stdout) == DropFirst(SplitOn(stdout, NL), 2)

\* The loop over the lines: the dict, or not ok when a non-empty line has fewer
\* than two whitespace-separated parts (parts[0] or parts[1] raises IndexError).
RECURSIVE ParseLines(_, _)
ParseLines(lines, d) ==
    IF lines = <<>> THEN [ok |-> TRUE, dict |-> d]
    ELSE LET package == Head(lines)
             parts == SplitWS(package)
         IN IF package = <<>> THEN ParseLines(Tail(lines), d)
            ELSE IF Len(parts) < 2 THEN [ok |-> FALSE, dict |-> <<>>]
            ELSE ParseLines(Tail(lines),
                            DictSet(d, NormalizeInstalledName(parts[1]), parts[2]))

ParseListing(stdout) == ParseLines(PackageLines(stdout), <<>>)

----------------------------------------------------------------------------
(* Import Scanner: get_imported_packages *)

\* Some packages have different names when installed via pip.
PACKAGE_MAPPING == [k \in {<<"p","i","l">>} |-> <<"p","i","l","l","o","w">>]

\* ignore = ["__pycache__", ".git", ".vscode", ".venv"]
ignore == {"__pycache__", ".git", ".vscode", ".venv"}

KwImport == <<"i","m","p","o","r","t">>
KwFrom == <<"f","r","o","m">>
DotPy == <<".","p","y">>

StartsWithAt(s, i, w) ==
    /\ i + Len(w) - 1 <= Len(s)
    /\ SubSeq(s, i, i + Len(w) - 1) = w

\* A slip: re.MULTILINE left out, so that ^ is the start of the text only.
AtTextStart(s, pos) == pos = 1

\* ^ under re.MULTILINE: the start of the text or just after a newline.
AtLineStart(s, pos) == pos = 1 \/ s[pos - 1] = NL

\* One attempt of ^\s*(?:import|from)\s+(\S+) at pos: the capture and the end of
\* the match, or no match. \s also matches newlines, so a match can span lines.
MatchAt(s, pos) ==
    LET a == SpaceRunEnd(s, pos)
        k == IF StartsWithAt(s, a, KwImport) THEN a + Len(KwImport)
             ELSE IF StartsWithAt(s, a, KwFrom) THEN a + Len(KwFrom)
             ELSE 0
        b == SpaceRunEnd(s, k)
        e == TokenRunEnd(s, b)
    IN IF AtLineStart(s, pos) /\ k > 0 /\ b > k /\ e > b
       THEN [matched |-> TRUE, capture |-> Slice(s, b, e), end |-> e]
       ELSE [matched |-> FALSE, capture |-> <<>>, end |-> pos]

\* re.findall: leftmost non-overlapping matches, scanning on from each match's end.
RECURSIVE FindAllFrom(_, _)
FindAllFrom(s, pos) ==
    IF pos > Len(s) THEN <<>>
    ELSE LET m == MatchAt(s, pos)
         IN IF m.matched THEN <<m.capture>> \o FindAllFrom(s, m.end)
            ELSE FindAllFrom(s, pos + 1)

FindImports(content) == FindAllFrom(content, 1)

\* A slip: the module path is not cut at its first dot.
TopSegmentWhole(imp) == Lower(imp)

\* imp.split(".")[0].lower()
TopSegment(imp) == Lower(SplitOn(imp, ".")[1])

\* if imp in PACKAGE_MAPPING: imp = PACKAGE_MAPPING[imp]
ApplyMapping(imp) == IF imp \in DOMAIN PACKAGE_MAPPING THEN PACKAGE_MAPPING[imp] ELSE imp

NormalizeImport(imp) == ApplyMapping(TopSegment(imp))

\* The names one file's text adds to imported_packages.
ScanText(content) ==
    LET imports == FindImports(content)
    IN {NormalizeImport(imports[i]) : i \in 1..Len(imports)}

\* The tree: directory 0 is project_path; directory i > 0 has a name and a parent;
\* each directory holds a list of files [name, text, readable].
DirIds(t) == 0..Len(t.parent)

\* os.walk's dirs for directory d, in listing order.
RECURSIVE SubdirsFrom(_, _, _)
SubdirsFrom(t, d, i) ==
    IF i > Len(t.parent) THEN <<>>
    ELSE (IF t.parent[i] = d THEN <<i>> ELSE <<>>) \o SubdirsFrom(t, d, i + 1)

Subdirs(t, d) == SubdirsFrom(t, d, 1)

\* A slip: the filtered list is not assigned back into dirs.
PruneDirsKeepAll(t, dirs) == dirs

\* dirs[:] = [d for d in dirs if d not in ignore]
PruneDirs(t, dirs) == SelectSeq(dirs, LAMBDA i : t.name[i] \notin ignore)

\* if file.endswith(".py")
IsSourceFile(name) == EndsWith(name, DotPy)

\* The loop over one directory's files: the files opened, the names found, and
\* whether a read raised (the loop stops there).
RECURSIVE ReadFilesFrom(_, _, _)
ReadFilesFrom(files, i, acc) ==
    IF i > Len(files) THEN acc
    ELSE IF ~IsSourceFile(files[i].name) THEN ReadFilesFrom(files, i + 1, acc)
    ELSE IF ~files[i].readable
         THEN [acc EXCEPT !.opened = @ \cup {i}, !.failed = TRUE]
    ELSE ReadFilesFrom(files, i + 1,
                       [acc EXCEPT !.opened = @ \cup {i},
                                   !.found = @ \cup ScanText(files[i].text)])

ReadDirFiles(files) ==
    ReadFilesFrom(files, 1, [opened |-> {}, found |-> {}, failed |-> FALSE])

----------------------------------------------------------------------------
(* Manifest Writer: generate_requirements_txt *)

\* A slip: "package in installed_package", a substring test.
MatchesSubstring(package, installed_package) ==
    \E i \in 1..(Len(installed_package) + 1) : StartsWithAt(installed_package, i, package)

\* package == installed_package or
\* package.replace("_", "-") == installed_package.replace("_", "-")
Matches(package, installed_package) ==
    \/ package = installed_package
    \/ Replace(package, "_", "-") = Replace(installed_package, "_", "-")

\* A slip: the last matching entry instead of the first.
LastMatch(d, package) ==
    IF \E i \in 1..Len(d) : Matches(package, d[i].name)
    THEN CHOOSE i \in 1..Len(d) :
            /\ Matches(package, d[i].name)
            /\ \A j \in (i + 1)..Len(d) : ~Matches(package, d[j].name)
    ELSE 0

\* The inner loop with its break: the first matching entry's place, 0 when none.
FirstMatch(d, package) ==
    IF \E i \in 1..Len(d) : Matches(package, d[i].name)
    THEN CHOOSE i \in 1..Len(d) :
            /\ Matches(package, d[i].name)
            /\ \A j \in 1..(i - 1) : ~Matches(package, d[j].name)
    ELSE 0

\* f"{installed_package}=={installed_packages[installed_package]}\n", as a line
ManifestLine(d, i) == d[i].name \o <<"=", "=">> \o DictGet(d, d[i].name)

\* What iterating over one imported package appends to the file.
EmittedLines(d, package) ==
    LET i == FirstMatch(d, package)
    IN IF i = 0 THEN <<>> ELSE <<ManifestLine(d, i)>>

----------------------------------------------------------------------------
(* main: the three stages in sequence *)

\* if venv_folder: None and the empty string are both false.
VenvFolderGiven == venv_folder.given /\ venv_folder.value # <<>>

\* An uncaught exception ends the run where it is raised.
Crash(exception) ==
    /\ pc' = "crashed"
    /\ error' = exception

\* The branches that print "Getting global packages instead." without having run
\* the venv's pip: no folder given, or the folder is not a directory.
NoVenv ==
    /\ pc = "collect"
    /\ ~(VenvFolderGiven /\ venvIsDir)
    /\ pc' = "global"
    /\ UNCHANGED <<error, venv_folder, venvIsDir, venvRun, globalRun, calls, installed,
                   tree, walkStack, readFiles, imported, todo, manifest, printed,
                   runs, prevManifest>>

\* A slip: the venv branch does not return, and the global listing runs too.
VenvListingFallsThrough ==
    /\ pc = "collect"
    /\ VenvFolderGiven /\ venvIsDir
    /\ calls' = Append(calls, "venv")
    /\ IF venvRun.raised
       THEN Crash("OSError") /\ UNCHANGED installed
       ELSE IF venvRun.returncode = 0
            THEN LET r == ParseListing(venvRun.stdout)
                 IN IF r.ok
                    THEN pc' = "global" /\ installed' = r.dict /\ UNCHANGED error
                    ELSE Crash("IndexError") /\ UNCHANGED installed
            ELSE pc' = "global" /\ UNCHANGED <<error, installed>>
    /\ UNCHANGED <<venv_folder, venvIsDir, venvRun, globalRun, tree, walkStack,
                   readFiles, imported, todo, manifest, printed, runs, prevManifest>>

\* subprocess.run([<venv>/bin/pip, "list"]) and, on exit status 0, the parse of
\* its output and the return.
VenvListing ==
    /\ pc = "collect"
    /\ VenvFolderGiven /\ venvIsDir
    /\ calls' = Append(calls, "venv")
    /\ IF venvRun.raised
       THEN Crash("OSError") /\ UNCHANGED installed
       ELSE IF venvRun.returncode = 0
            THEN LET r == ParseListing(venvRun.stdout)
                 IN IF r.ok
                    THEN pc' = "scan" /\ installed' = r.dict /\ UNCHANGED error
                    ELSE Crash("IndexError") /\ UNCHANGED installed
            ELSE pc' = "global" /\ UNCHANGED <<error, installed>>
    /\ UNCHANGED <<venv_folder, venvIsDir, venvRun, globalRun, tree, walkStack,
                   readFiles, imported, todo, manifest, printed, runs, prevManifest>>

\* A slip: a failed invocation is caught and taken for an empty listing.
GlobalListingRecovers ==
    /\ pc = "global"
    /\ calls' = Append(calls, "global")
    /\ IF globalRun.raised
       THEN pc' = "scan" /\ installed' = <<>> /\ UNCHANGED error
       ELSE LET r == ParseListing(globalRun.stdout)
            IN IF r.ok
               THEN pc' = "scan" /\ installed' = r.dict /\ UNCHANGED error
               ELSE Crash("IndexError") /\ UNCHANGED installed
    /\ UNCHANGED <<venv_folder, venvIsDir, venvRun, globalRun, tree, walkStack,
                   readFiles, imported, todo, manifest, printed, runs, prevManifest>>

\* subprocess.run(["pip", "list"]), whose exit status is not looked at, and the
\* parse of its output.
GlobalListing ==
    /\ pc = "global"
    /\ calls' = Append(calls, "global")
    /\ IF globalRun.raised
       THEN Crash("OSError") /\ UNCHANGED installed
       ELSE LET r == ParseListing(globalRun.stdout)
            IN IF r.ok
               THEN pc' = "scan" /\ installed' = r.dict /\ UNCHANGED error
               ELSE Crash("IndexError") /\ UNCHANGED installed
    /\ UNCHANGED <<venv_folder, venvIsDir, venvRun, globalRun, tree, walkStack,
                   readFiles, imported, todo, manifest, printed, runs, prevManifest>>

\* imported_packages = set(); os.walk(path) starts at project_path.
ScanStart ==
    /\ pc = "scan"
    /\ pc' = "walk"
    /\ walkStack' = <<0>>
    /\ readFiles' = {}
    /\ imported' = {}
    /\ UNCHANGED <<error, venv_folder, venvIsDir, venvRun, globalRun, calls, installed,
                   tree, todo, manifest, printed, runs, prevManifest>>

\* One iteration of the os.walk loop: prune the directory's subdirectories, read
\* its .py files, and leave the kept subdirectories to be walked next, top-down.
WalkDir ==
    /\ pc = "walk"
    /\ walkStack # <<>>
    /\ LET root == Head(walkStack)
           dirs == PruneDirs(tree, Subdirs(tree, root))
           got == ReadDirFiles(tree.files[root])
       IN /\ readFiles' = readFiles \cup {<<root, i>> : i \in got.opened}
          /\ IF got.failed
             THEN Crash("UnicodeDecodeError") /\ UNCHANGED <<imported, walkStack>>
             ELSE /\ imported' = imported \cup got.found
                  /\ walkStack' = dirs \o Tail(walkStack)
                  /\ UNCHANGED <<pc, error>>
    /\ UNCHANGED <<venv_folder, venvIsDir, venvRun, globalRun, calls, installed, tree,
                   todo, manifest, printed, runs, prevManifest>>

\* os.walk is exhausted: return imported_packages.
ScanReturn ==
    /\ pc = "walk"
    /\ walkStack = <<>>
    /\ pc' = "write"
    /\ UNCHANGED <<error, venv_folder, venvIsDir, venvRun, globalRun, calls, installed,
                   tree, walkStack, readFiles, imported, todo, manifest, printed,
                   runs, prevManifest>>

\* A slip: open(output_file, "a"), which keeps what the file held.
OpenManifestAppend ==
    /\ pc = "write"
    /\ pc' = "emit"
    /\ manifest' = [exists |-> TRUE, lines |-> manifest.lines]
    /\ todo' = imported
    /\ UNCHANGED <<error, venv_folder, venvIsDir, venvRun, globalRun, calls, installed,
                   tree, walkStack, readFiles, imported, printed, runs, prevManifest>>

\* open(output_file, "w"): the file is created, or truncated.
OpenManifest ==
    /\ pc = "write"
    /\ pc' = "emit"
    /\ manifest' = [exists |-> TRUE, lines |-> <<>>]
    /\ todo' = imported
    /\ UNCHANGED <<error, venv_folder, venvIsDir, venvRun, globalRun, calls, installed,
                   tree, walkStack, readFiles, imported, printed, runs, prevManifest>>

\* A slip: the break leaves the outer loop too, ending the file at its first line.
EmitPackageStopsAtMatch ==
    /\ pc = "emit"
    /\ \E package \in todo :
          /\ manifest' = [manifest EXCEPT !.lines = @ \o EmittedLines(installed, package)]
          /\ todo' = IF EmittedLines(installed, package) # <<>> THEN {}
                     ELSE todo \ {package}
    /\ UNCHANGED <<pc, error, venv_folder, venvIsDir, venvRun, globalRun, calls,
                   installed, tree, walkStack, readFiles, imported, printed, runs,
                   prevManifest>>

\* One iteration of "for package in imported_packages": a set is iterated in an
\* order the program does not choose.
EmitPackage ==
    /\ pc = "emit"
    /\ \E package \in todo :
          /\ manifest' = [manifest EXCEPT !.lines = @ \o EmittedLines(installed, package)]
          /\ todo' = todo \ {package}
    /\ UNCHANGED <<pc, error, venv_folder, venvIsDir, venvRun, globalRun, calls,
                   installed, tree, walkStack, readFiles, imported, printed, runs,
                   prevManifest>>

\* The file is closed and main prints its final message.
CloseAndReport ==
    /\ pc = "emit"
    /\ todo = {}
    /\ pc' = "done"
    /\ printed' = TRUE
    /\ UNCHANGED <<error, venv_folder, venvIsDir, venvRun, globalRun, calls, installed,
                   tree, walkStack, readFiles, imported, todo, manifest, runs,
                   prevManifest>>

MaxRuns == 2

\* The tool is run again on the unchanged project and environment: everything is
\* computed afresh, and only requirements.txt is left from the run before.
Rerun ==
    /\ pc = "done"
    /\ runs < MaxRuns
    /\ runs' = runs + 1
    /\ prevManifest' = manifest
    /\ pc' = "collect"
    /\ calls' = <<>>
    /\ installed' = <<>>
    /\ walkStack' = <<>>
    /\ readFiles' = {}
    /\ imported' = {}
    /\ printed' = FALSE
    /\ UNCHANGED <<error, venv_folder, venvIsDir, venvRun, globalRun, tree, todo,
                   manifest>>

----------------------------------------------------------------------------
(* Inputs *)

MaxListingLines == 2
MaxTextLines == 2
MaxDirs == 2
MaxInstalled == 3

SeqsUpTo(S, n) == UNION {[1..k -> S] : k \in 0..n}

Import(x) == KwImport \o <<SP>> \o x
FromImport(x, y) == KwFrom \o <<SP>> \o x \o <<SP>> \o KwImport \o <<SP>> \o y

\* Lines a package listing may hold: a header, an empty line, names that differ
\* in case and in hyphen or underscore, a line of one token, a line of blanks,
\* a line of three tokens separated by a tab and a space.
ListingLineSamples ==
    { <<"P", SP, "V">>,
      <<>>,
      <<"A", "-", "b", SP, "1">>,
      <<"a", "_", "b", SP, "2">>,
      <<"x">>,
      <<SP>>,
      <<"n", "p", TAB, "3", SP, "e">> }

Header == << <<"P", SP, "V">>, <<"-", SP, "-">> >>

\* The lines a listing starts with: none, one, or pip's two header lines.
HeaderSamples == { <<>>, <<Header[1]>>, Header }

\* Every listing of some header lines and at most MaxListingLines sample lines.
WideListings ==
    {JoinLines(h \o l) : h \in HeaderSamples,
                         l \in SeqsUpTo(ListingLineSamples, MaxListingLines)}

\* A listing of packages at version v, one of them listed under two spellings
\* of its name, ending in a newline.
PackagesListing(v) ==
    JoinLines(Header \o << <<"A", "-", "b", SP, "0">>, <<"a", SP, v>>,
                           <<"p", "i", "l", "l", "o", "w", SP, v>>,
                           <<"a", "_", "b", SP, v>>,
                           <<"b", SP, v>>, <<>> >>)

EmptyListing == JoinLines(Header)
BrokenListing == JoinLines(Header \o << <<"x">> >>)

VenvListings == {PackagesListing("1"), EmptyListing, BrokenListing}
GlobalListings == {PackagesListing("2"), EmptyListing, BrokenListing}

VenvFolderSamples ==
    { [given |-> FALSE, value |-> <<>>],
      [given |-> TRUE, value |-> <<>>],
      [given |-> TRUE, value |-> <<".", "v", "e", "n", "v">>] }

\* subprocess.run: it raises (no such executable), or returns with status 0, or
\* returns with a non-zero status.
RunKinds == {"raise", "ok", "fail"}

MkRun(kind, out) ==
    [raised |-> kind = "raise",
     returncode |-> IF kind = "fail" THEN 1 ELSE 0,
     stdout |-> IF kind = "raise" THEN <<>> ELSE out]

\* A listing the run never reaches is left at this value.
NotRun == MkRun("ok", <<>>)

CollectorInputs(VS, GS) ==
    \E vf \in VenvFolderSamples, isdir \in BOOLEAN, vkind \in RunKinds,
       gkind \in RunKinds, vout \in VS, gout \in GS :
       LET given == vf.given /\ vf.value # <<>>
           reachV == given /\ isdir
           reachG == ~reachV \/ vkind = "fail"
       IN /\ venv_folder = vf
          /\ venvIsDir = (given /\ isdir)
          /\ venvRun = IF ~reachV THEN NotRun
                       ELSE IF vkind = "fail" THEN MkRun("fail", <<>>)
                       ELSE MkRun(vkind, vout)
          /\ globalRun = IF reachG THEN MkRun(gkind, gout) ELSE NotRun

File(name, text, readable) == [name |-> name, text |-> text, readable |-> readable]

MPy == <<"m", ".", "p", "y">>
NTxt == <<"n", ".", "t", "x", "t">>

\* A project of one directory.
FlatTree(files) == [parent |-> <<>>, name |-> <<>>, files |-> [d \in {0} |-> files]]

DirNameSamples == {".git", "pkg"}

\* What a directory may hold: a source file, a file that is no source file and
\* cannot be read followed by a source file, a source file that cannot be read.
DirFileSamples ==
    { << File(MPy, Import(<<"o", "s">>), TRUE) >>,
      << File(MPy, Import(<<"r", "q">>), TRUE) >>,
      << File(NTxt, Import(<<"b">>), FALSE), File(MPy, Import(<<"a">>), TRUE) >>,
      << File(MPy, <<>>, FALSE) >> }

\* Every tree of at most MaxDirs directories below project_path: a directory's
\* parent is made before it, and no two directories of one parent share a name.
TreeSamples ==
    UNION { { [parent |-> p, name |-> nm, files |-> f] :
                p \in {q \in [1..n -> 0..n] : \A i \in 1..n : q[i] < i},
                nm \in [1..n -> DirNameSamples],
                f \in [0..n -> DirFileSamples] } : n \in 0..MaxDirs }

ValidTree(t) ==
    \A i, j \in 1..Len(t.parent) :
        (i # j /\ t.parent[i] = t.parent[j]) => t.name[i] # t.name[j]

\* Lines of a source file: imports plain, indented, dotted, aliased, of several
\* names; a "from" with no "import" after it; a bare keyword; text that is no
\* import; an empty line.
TextLineSamples ==
    { Import(<<"o", "s">>),
      <<SP, SP>> \o FromImport(<<"a", ".", "b">>, <<"c">>),
      Import(<<"P", "I", "L">>),
      Import(<<"a", ",", SP, "b">>),
      Import(<<"a", ".", "b", ",", SP, "c">>),
      KwFrom \o <<SP, "x", SP, "y">>,
      KwImport,
      KwFrom \o <<SP>>,
      <<TAB>> \o KwImport \o <<SP, SP, "A", "b", "_", "c">>,
      KwImport \o <<"x", SP, "y">>,
      <<"x", SP, "=", SP, "1">>,
      <<>> }

WideTexts == {JoinLines(l) : l \in SeqsUpTo(TextLineSamples, MaxTextLines)}

\* The texts of the whole-run projects.
ProjectTextSamples ==
    { JoinLines(<< Import(<<"a", ".", "b", ",", SP, "c">>) >>),
      JoinLines(<< Import(<<"a", ",", SP, "b">>) >>),
      JoinLines(<< Import(<<"a", "-", "b">>), FromImport(<<"a", "_", "b">>, <<"x">>) >>),
      JoinLines(<< Import(<<"P", "I", "L">>), Import(<<"p", "i", "l", "l", "o", "w">>) >>),
      JoinLines(<< Import(<<"o", "s">>) >>),
      JoinLines(<< Import(<<"b">>), Import(<<"a", "_", "b">>), Import(<<"P", "I", "L">>) >>) }

\* A project with an ignored .venv and a package directory below project_path.
NestedTree(text, readable) ==
    [parent |-> <<0, 0>>,
     name |-> <<".venv", "pkg">>,
     files |-> [d \in 0..2 |->
                  IF d = 0 THEN << File(MPy, text, TRUE) >>
                  ELSE IF d = 1 THEN << File(MPy, Import(<<"a">>), TRUE) >>
                  ELSE << File(MPy, Import(<<"b">>), readable) >>]]

ProjectSamples ==
    {FlatTree(<< File(MPy, t, r) >>) : t \in ProjectTextSamples, r \in BOOLEAN}
    \cup {NestedTree(t, r) : t \in ProjectTextSamples, r \in BOOLEAN}

Digits == <<"1", "2", "3", "4", "5", "6", "7", "8", "9">>

InstalledNameSamples == { <<"a", "_", "b">>, <<"a", "-", "b">>, <<"b">>, <<"c">> }
ImportedNameSamples == { <<"a", "_", "b">>, <<"a", "-", "b">>, <<"b">>, <<"c">> }

\* Every dict of at most MaxInstalled of the names, the i-th inserted at version i.
DictSamples ==
    { [i \in 1..Len(ks) |-> [name |-> ks[i], version |-> <<Digits[i]>>]] :
        ks \in {q \in SeqsUpTo(InstalledNameSamples, MaxInstalled) :
                  \A i, j \in 1..Len(q) : i # j => q[i] # q[j]} }

\* requirements.txt before the run: absent, or left by someone else.
OldManifests ==
    { [exists |-> FALSE, lines |-> <<>>],
      [exists |-> TRUE, lines |-> << <<"o", "l", "d", "=", "=", "0">> >>] }

----------------------------------------------------------------------------
(* Specifications *)

\* The start of main, whatever the inputs.
InitRun ==
    /\ error = "none"
    /\ calls = <<>>
    /\ installed = <<>>
    /\ walkStack = <<>>
    /\ readFiles = {}
    /\ imported = {}
    /\ todo = {}
    /\ printed = FALSE
    /\ runs = 1
    /\ prevManifest = manifest

\* The whole tool, run and run again.
Init ==
    /\ pc = "collect"
    /\ CollectorInputs(VenvListings, GlobalListings)
    /\ tree \in ProjectSamples
    /\ manifest \in OldManifests
    /\ InitRun

Next ==
    \/ NoVenv
    \/ VenvListing
    \/ GlobalListing
    \/ ScanStart
    \/ WalkDir
    \/ ScanReturn
    \/ OpenManifest
    \/ EmitPackage
    \/ CloseAndReport
    \/ Rerun

Spec == Init /\ [][Next]_vars

\* get_installed_packages on every listing of the samples' lines.
InitCollector ==
    /\ pc = "collect"
    /\ \/ CollectorInputs(WideListings, GlobalListings)
       \/ CollectorInputs(VenvListings, WideListings)
    /\ tree = FlatTree(<<>>)
    /\ manifest = [exists |-> FALSE, lines |-> <<>>]
    /\ InitRun

NextCollector == NoVenv \/ VenvListing \/ GlobalListing

SpecCollector == InitCollector /\ [][NextCollector]_vars

\* get_imported_packages on every tree of the samples, and on one file of every
\* text of the samples' lines.
InitScanner ==
    /\ pc = "scan"
    /\ venv_folder = [given |-> FALSE, value |-> <<>>]
    /\ venvIsDir = FALSE
    /\ venvRun = NotRun
    /\ globalRun = NotRun
    /\ \/ tree \in {t \in TreeSamples : ValidTree(t)}
       \/ tree \in {FlatTree(<< File(MPy, t, TRUE) >>) : t \in WideTexts}
    /\ manifest = [exists |-> FALSE, lines |-> <<>>]
    /\ InitRun

NextScanner == ScanStart \/ WalkDir \/ ScanReturn

SpecScanner == InitScanner /\ [][NextScanner]_vars

\* generate_requirements_txt on every dict and set of the samples.
InitWriter ==
    /\ pc = "write"
    /\ venv_folder = [given |-> FALSE, value |-> <<>>]
    /\ venvIsDir = FALSE
    /\ venvRun = NotRun
    /\ globalRun = NotRun
    /\ tree = FlatTree(<<>>)
    /\ manifest \in OldManifests
    /\ error = "none"
    /\ calls = <<>>
    /\ installed \in DictSamples
    /\ walkStack = <<>>
    /\ readFiles = {}
    /\ imported \in SUBSET ImportedNameSamples
    /\ todo = {}
    /\ printed = FALSE
    /\ runs = 1
    /\ prevManifest = manifest

NextWriter == OpenManifest \/ EmitPackage \/ CloseAndReport

SpecWriter == InitWriter /\ [][NextWriter]_vars

----------------------------------------------------------------------------
(* The collector's choice of listing *)

Last(s) == s[Len(s)]

Range(s) == {s[i] : i \in 1..Len(s)}

\* get_installed_packages has returned or raised.
CollectorDone == pc \notin {"collect", "global"}

\* <venv>/bin/pip list ran and returned a non-zero exit status.
VenvReturnedNonZero ==
    VenvFolderGiven /\ venvIsDir /\ ~venvRun.raised /\ venvRun.returncode # 0

VenvReturnedZero ==
    VenvFolderGiven /\ venvIsDir /\ ~venvRun.raised /\ venvRun.returncode = 0

\* C1: the global "pip list" is invoked exactly when no venv folder was given,
\* or the venv path is no directory, or the venv's listing returned a non-zero
\* status; when the venv's listing returns 0 the mapping is parsed from its
\* output and the global listing is never invoked; at most two listings are
\* invoked, the venv's before the global one.
C1_GlobalListingExactlyOnFallback ==
    /\ calls \in {<<>>, <<"venv">>, <<"global">>, <<"venv", "global">>}
    /\ CollectorDone =>
          (("global" \in Range(calls)) <=>
              (~VenvFolderGiven \/ ~venvIsDir \/ VenvReturnedNonZero))
    /\ pc = "global" => (~VenvFolderGiven \/ ~venvIsDir \/ VenvReturnedNonZero)
    /\ (VenvReturnedZero /\ calls # <<>>) =>
          /\ calls = <<"venv">>
          /\ pc = "scan" =>
                \A i \in 1..Len(installed) :
                    \E l \in Range(PackageLines(venvRun.stdout)) :
                        Len(SplitWS(l)) >= 2 /\ SplitWS(l)[2] = installed[i].version

\* The venv's listing failed and the global one was parsed instead.
C1_Witness ==
    /\ pc = "scan"
    /\ calls = <<"venv", "global">>
    /\ installed # <<>>

----------------------------------------------------------------------------
(* The collector's parse *)

\* The listing whose output the collector went on to parse, if it did.
ParseAttempted ==
    /\ CollectorDone
    /\ calls # <<>>
    /\ IF Last(calls) = "global" THEN ~globalRun.raised ELSE ~venvRun.raised

ParsedStdout == IF Last(calls) = "global" THEN globalRun.stdout ELSE venvRun.stdout

\* The non-empty lines after the first two, as the places they stand at.
BodyLines(stdout) ==
    LET lines == SplitOn(stdout, NL)
    IN {i \in 3..Len(lines) : lines[i] # <<>>}

LineAt(stdout, i) == SplitOn(stdout, NL)[i]

\* A token as the mapping's key: lowercased, hyphens as underscores.
KeyOf(token) ==
    [i \in 1..Len(token) |->
        IF token[i] = "-" THEN "_" ELSE LowerChar(token[i])]

\* C2 as stated: whatever the lines after the two header lines hold, the
\* collector returns a mapping with exactly one entry per non-empty line, keyed
\* by the line's normalized first token and holding its second token.
C2_OneEntryPerLine ==
    (ParseAttempted /\ Len(SplitOn(ParsedStdout, NL)) >= 2) =>
        /\ pc = "scan"
        /\ Len(installed) = Cardinality(BodyLines(ParsedStdout))
        /\ \A i \in BodyLines(ParsedStdout) :
              LET parts == SplitWS(LineAt(ParsedStdout, i))
              IN \E j \in 1..Len(installed) :
                    /\ installed[j].name = KeyOf(parts[1])
                    /\ installed[j].version = parts[2]

\* C2: the collector skips the first two lines; if every later non-empty line
\* has at least two whitespace-separated tokens, the mapping's keys are exactly
\* the normalized first tokens of those lines, each key once, with the second
\* token of the LAST line of that key as its version (lines whose names
\* normalize alike share one entry); if some non-empty line has fewer than two
\* tokens (one token, or only blanks) the collector raises IndexError and
\* returns no mapping.
C2_EntryPerKeyLastWins ==
    ParseAttempted =>
        LET body == BodyLines(ParsedStdout)
            parts(i) == SplitWS(LineAt(ParsedStdout, i))
        IN IF \E i \in body : Len(parts(i)) < 2
           THEN pc = "crashed" /\ error = "IndexError" /\ installed = <<>>
           ELSE /\ pc = "scan"
                /\ DictKeys(installed) = {KeyOf(parts(i)[1]) : i \in body}
                /\ Len(installed) = Cardinality(DictKeys(installed))
                /\ \A j \in 1..Len(installed) :
                      \E i \in body :
                         /\ KeyOf(parts(i)[1]) = installed[j].name
                         /\ parts(i)[2] = installed[j].version
                         /\ \A m \in body :
                               KeyOf(parts(m)[1]) = installed[j].name => m <= i

\* Two lines whose names normalize alike were parsed into one entry.
C2_Witness ==
    /\ ParseAttempted
    /\ pc = "scan"
    /\ Len(installed) = 1
    /\ Cardinality(BodyLines(ParsedStdout)) = 2
    /\ installed[1].version = <<"1">>

----------------------------------------------------------------------------
(* The scanner's walk *)

\* Directory d lies in a subtree rooted at a subdirectory with an ignored name.
RECURSIVE UnderIgnored(_, _)
UnderIgnored(t, d) ==
    /\ d # 0
    /\ (t.name[d] \in ignore \/ UnderIgnored(t, t.parent[d]))

\* The files of the tree: <<directory, index>>.
AllFiles(t) == UNION {{<<d, i>> : i \in 1..Len(t.files[d])} : d \in DirIds(t)}

FileOf(t, f) == t.files[f[1]][f[2]]

\* The tokens one text's pattern matches capture, normalized.
NamesOf(f) == ScanText(FileOf(tree, f).text)

\* C3: no file in a subtree rooted at a subdirectory whose name is in the ignore
\* set is ever read, at any depth, so the imports found only in such files never
\* appear in the result set.
C3_IgnoredSubtreesNeverRead ==
    /\ \A f \in readFiles : ~UnderIgnored(tree, f[1])
    /\ imported \subseteq
          UNION {NamesOf(f) : f \in {g \in AllFiles(tree) : ~UnderIgnored(tree, g[1])}}
    /\ pc = "write" =>
          /\ readFiles = {f \in AllFiles(tree) :
                            /\ ~UnderIgnored(tree, f[1])
                            /\ IsSourceFile(FileOf(tree, f).name)}
          /\ imported = UNION {NamesOf(f) : f \in readFiles}

\* The walk ended; a directory two levels down whose parent is ignored holds a
\* source file importing a name found nowhere else, and the name was not found.
C3_Witness ==
    /\ pc = "write"
    /\ imported # {}
    /\ \E f \in AllFiles(tree) :
          /\ f[1] # 0
          /\ tree.parent[f[1]] # 0
          /\ tree.name[f[1]] \notin ignore
          /\ tree.name[tree.parent[f[1]]] \in ignore
          /\ IsSourceFile(FileOf(tree, f).name)
          /\ NamesOf(f) # {}
          /\ NamesOf(f) \cap imported = {}

----------------------------------------------------------------------------
(* The scanner's pattern, line by line *)

TextLines(f) == SplitOn(FileOf(tree, f).text, NL)

IsKeyword(token) == token \in {KwImport, KwFrom}

\* The line's first token is a keyword and a second token follows it.
StartsStatement(line) ==
    LET parts == SplitWS(line)
    IN Len(parts) >= 2 /\ IsKeyword(parts[1])

\* The line reads "import X ..." or "from X import Y ...".
IsImportStatement(line) ==
    LET parts == SplitWS(line)
    IN \/ Len(parts) >= 2 /\ parts[1] = KwImport
       \/ Len(parts) >= 4 /\ parts[1] = KwFrom /\ parts[3] = KwImport

\* The line holds a keyword and nothing else.
IsBareKeyword(line) ==
    LET parts == SplitWS(line)
    IN Len(parts) = 1 /\ IsKeyword(parts[1])

IsBlank(line) == SplitWS(line) = <<>>

ModuleOf(line) == SplitWS(line)[2]

BeforeFirstDot(x) ==
    IF \E i \in 1..Len(x) : x[i] = "."
    THEN LET dot == CHOOSE i \in 1..Len(x) :
                       x[i] = "." /\ \A j \in 1..(i - 1) : x[j] # "."
         IN [i \in 1..(dot - 1) |-> x[i]]
    ELSE x

\* The top-level segment, lowercased, then the alias table's value for it if it
\* is one of the table's keys.
CandidateOf(x) ==
    LET seg == [i \in 1..Len(BeforeFirstDot(x)) |-> LowerChar(BeforeFirstDot(x)[i])]
    IN IF seg \in DOMAIN PACKAGE_MAPPING THEN PACKAGE_MAPPING[seg] ELSE seg

\* Line i comes, blank lines apart, right after a line holding a bare keyword.
FollowsBareKeyword(lines, i) ==
    \E j \in 1..(i - 1) :
        /\ IsBareKeyword(lines[j])
        /\ \A m \in (j + 1)..(i - 1) : IsBlank(lines[m])

\* C4 as stated: every "import X" or "from X import Y" line of a scanned
\* file puts X's candidate in the result set, and every element of the result
\* set is the candidate of such a line.
C4_ExactlyTheImportStatements ==
    pc = "write" =>
        /\ \A f \in readFiles :
              \A i \in 1..Len(TextLines(f)) :
                 IsImportStatement(TextLines(f)[i]) =>
                    CandidateOf(ModuleOf(TextLines(f)[i])) \in imported
        /\ \A e \in imported :
              \E f \in readFiles :
                 \E i \in 1..Len(TextLines(f)) :
                    /\ IsImportStatement(TextLines(f)[i])
                    /\ CandidateOf(ModuleOf(TextLines(f)[i])) = e

\* C4: every line of a scanned file whose first token is "import" or "from" and
\* which has a second token X puts X's candidate (the segment before the first
\* ".", lowercased, then alias-mapped) in the result set, unless the line
\* follows, blank lines apart, a line holding the bare keyword alone (that
\* line's match takes this line's keyword as its module); and every element of
\* the result set is the candidate of the token after a keyword that is the
\* first token of its line: the next token of that line (whether or not
\* "import Y" follows a "from X"), or, the keyword standing alone, the first
\* token of the next non-blank line.
C4_KeywordLinesAndNextTokens ==
    pc = "write" =>
        /\ \A f \in readFiles :
              \A i \in 1..Len(TextLines(f)) :
                 (StartsStatement(TextLines(f)[i])
                    /\ ~FollowsBareKeyword(TextLines(f), i)) =>
                    CandidateOf(ModuleOf(TextLines(f)[i])) \in imported
        /\ \A e \in imported :
              \E f \in readFiles :
                 \E i \in 1..Len(TextLines(f)) :
                    \/ /\ StartsStatement(TextLines(f)[i])
                       /\ CandidateOf(ModuleOf(TextLines(f)[i])) = e
                    \/ /\ IsBareKeyword(TextLines(f)[i])
                       /\ \E j \in (i + 1)..Len(TextLines(f)) :
                             /\ \A m \in (i + 1)..(j - 1) : IsBlank(TextLines(f)[m])
                             /\ ~IsBlank(TextLines(f)[j])
                             /\ CandidateOf(SplitWS(TextLines(f)[j])[1]) = e

\* A scanned file holds a "from X" line with no "import" after it next to an
\* import statement, and both modules are in the result set.
C4_Witness ==
    /\ pc = "write"
    /\ \E f \in readFiles :
          \E i, j \in 1..Len(TextLines(f)) :
             /\ StartsStatement(TextLines(f)[i])
             /\ ~IsImportStatement(TextLines(f)[i])
             /\ CandidateOf(ModuleOf(TextLines(f)[i])) \in imported
             /\ IsImportStatement(TextLines(f)[j])
             /\ CandidateOf(ModuleOf(TextLines(f)[j])) \in imported
             /\ CandidateOf(ModuleOf(TextLines(f)[j])) # ModuleOf(TextLines(f)[j])

----------------------------------------------------------------------------
(* The writer's lines *)

ToUnderscore(x) == [i \in 1..Len(x) |-> IF x[i] = "-" THEN "_" ELSE x[i]]

\* The names are equal, raw or with hyphens and underscores taken as one.
SameName(package, key) == package = key \/ ToUnderscore(package) = ToUnderscore(key)

HasMatch(d, package) == \E i \in 1..Len(d) : SameName(package, d[i].name)

\* "<key>==<version>" of the first entry, in the mapping's order, of that name.
LineFor(d, package) ==
    LET i == CHOOSE k \in 1..Len(d) :
                /\ SameName(package, d[k].name)
                /\ \A j \in 1..Len(d) : SameName(package, d[j].name) => k <= j
    IN d[i].name \o <<"=", "=">> \o d[i].version

\* How often line x stands in the file.
Count(lines, x) == Cardinality({i \in 1..Len(lines) : lines[i] = x})

\* The file holds, in some order, one line for each of the packages that has a
\* match, and nothing else.
HoldsLinesOf(lines, d, packages) ==
    LET matched == {p \in packages : HasMatch(d, p)}
    IN /\ Len(lines) = Cardinality(matched)
       /\ \A x \in Range(lines) \cup {LineFor(d, p) : p \in matched} :
             Count(lines, x) = Cardinality({p \in matched : LineFor(d, p) = x})

\* C5: each imported name contributes exactly one manifest line if some
\* installed key equals it raw or after hyphen/underscore normalization of both
\* names, and no line and no error otherwise; the line is "<key>==<version>" of
\* the first matching installed entry in the mapping's iteration order.
C5_OneLinePerMatchedName ==
    /\ pc = "emit" => HoldsLinesOf(manifest.lines, installed, imported \ todo)
    /\ pc = "done" =>
          /\ HoldsLinesOf(manifest.lines, installed, imported)
          /\ error = "none"

\* The writer finished on a mapping with two entries of one normalized name: the
\* imported name written with a hyphen took the first of them, an underscore
\* key, and an imported name with no match left no line.
C5_Witness ==
    /\ pc = "done"
    /\ Len(installed) >= 2
    /\ installed[1].name = <<"a", "_", "b">>
    /\ installed[2].name = <<"a", "-", "b">>
    /\ imported = {<<"a", "-", "b">>, <<"c">>}
    /\ manifest.lines = << <<"a", "_", "b", "=", "=", "1">> >>

----------------------------------------------------------------------------
(* Failures, and the manifest file *)

\* subprocess.run(["pip", "list"]) raised.
GlobalInvocationFailed ==
    calls # <<>> /\ Last(calls) = "global" /\ globalRun.raised

\* A source file that cannot be read as text was opened.
UnreadableFileOpened == \E f \in readFiles : ~FileOf(tree, f).readable

\* get_installed_packages returned a mapping.
CollectorReturned ==
    /\ calls # <<>>
    /\ IF Last(calls) = "global"
       THEN ~globalRun.raised /\ ParseListing(globalRun.stdout).ok
       ELSE VenvReturnedZero /\ ParseListing(venvRun.stdout).ok

\* C6: a failed global listing invocation, or a source file that cannot be read
\* as text, ends the run there: no later stage runs, the manifest is neither
\* created nor truncated and the final message is not printed; the manifest is
\* touched only after the collector and the scanner have both returned.
C6_FailuresEndTheRunBeforeTheManifest ==
    /\ (GlobalInvocationFailed \/ UnreadableFileOpened) =>
          /\ pc = "crashed"
          /\ error # "none"
          /\ manifest = prevManifest
          /\ ~printed
          /\ ~ENABLED Next
    /\ pc \notin {"emit", "done"} => (manifest = prevManifest /\ ~printed)
    /\ pc \in {"emit", "done"} =>
          /\ error = "none"
          /\ CollectorReturned
          /\ walkStack = <<>>
          /\ ~UnreadableFileOpened

\* The venv's listing failed, the global one was parsed, and the scan met a file
\* it could not read: the run ended with the old manifest as it was.
C6_Witness ==
    /\ pc = "crashed"
    /\ calls = <<"venv", "global">>
    /\ UnreadableFileOpened
    /\ manifest.exists
    /\ manifest.lines # <<>>

\* No imported name matches an installed package.
NoneMatch == \A p \in imported : ~HasMatch(installed, p)

EntryLines(d) == {d[i].name \o <<"=", "=">> \o d[i].version : i \in 1..Len(d)}

\* C7: once the collector and the scanner have both returned, the writer creates
\* or truncates requirements.txt whatever it held and however many names match:
\* with no match the file is left empty, no error is raised and the final
\* message is still printed.
C7_ManifestAlwaysRewritten ==
    /\ pc = "write" => ENABLED OpenManifest
    /\ pc \in {"emit", "done"} =>
          /\ manifest.exists
          /\ Range(manifest.lines) \subseteq EntryLines(installed)
    /\ pc = "done" =>
          /\ printed
          /\ error = "none"
          /\ NoneMatch => manifest = [exists |-> TRUE, lines |-> <<>>]

\* The first run ended on a project that imports something, none of it
\* installed: the manifest that held a line before is empty now.
C7_Witness ==
    /\ pc = "done"
    /\ runs = 1
    /\ prevManifest.lines # <<>>
    /\ imported # {}
    /\ NoneMatch
    /\ manifest.lines = <<>>
    /\ printed

\* C9: two runs on the same project and the same listing write the same
\* multiset of lines, whatever the iteration order of the imported set; and no
\* imported name matches two installed entries, so the mapping's iteration
\* order cannot change a line either.
C9_RerunWritesTheSameLines ==
    /\ (pc = "done" /\ runs > 1) =>
          \A x \in Range(manifest.lines) \cup Range(prevManifest.lines) :
              Count(manifest.lines, x) = Count(prevManifest.lines, x)
    /\ pc \in {"write", "emit", "done"} =>
          \A p \in imported :
              Cardinality({i \in 1..Len(installed) : SameName(p, installed[i].name)}) <= 1

\* The second run wrote the lines of the first in another order.
C9_Witness ==
    /\ pc = "done"
    /\ runs = 2
    /\ Len(manifest.lines) >= 2
    /\ manifest.lines # prevManifest.lines

\* C10 as stated: no line stands twice in a manifest.
C10_NoDuplicateLines ==
    pc \in {"emit", "done"} =>
        \A i, j \in 1..Len(manifest.lines) :
            i # j => manifest.lines[i] # manifest.lines[j]

\* C10: a line stands twice in a manifest only when the scanner's result set
\* holds two distinct names that differ by hyphen versus underscore alone, both
\* matching that installed entry; an alias key and its target's own name are one
\* element of the set and leave one line.
C10_DuplicatesOnlyOfHyphenTwins ==
    pc \in {"emit", "done"} =>
        /\ \A i, j \in 1..Len(manifest.lines) :
              (i # j /\ manifest.lines[i] = manifest.lines[j]) =>
                  \E p, q \in imported \ todo :
                      /\ p # q
                      /\ ToUnderscore(p) = ToUnderscore(q)
                      /\ HasMatch(installed, p)
                      /\ LineFor(installed, p) = manifest.lines[i]
                      /\ LineFor(installed, q) = manifest.lines[i]
        /\ \A x \in Range(manifest.lines) :
              Count(manifest.lines, x) =
                 Cardinality({p \in imported \ todo :
                                HasMatch(installed, p) /\ LineFor(installed, p) = x})

\* The run ended with the same line written for a-b and for a_b.
C10_Witness ==
    /\ pc = "done"
    /\ imported = {<<"a", "-", "b">>, <<"a", "_", "b">>}
    /\ Len(manifest.lines) = 2
    /\ manifest.lines[1] = manifest.lines[2]

----------------------------------------------------------------------------
(* Lines importing several names *)

\* "import" followed by a list of names with a comma in it.
IsMultiImport(line) ==
    LET parts == SplitWS(line)
    IN /\ Len(parts) >= 2
       /\ parts[1] = KwImport
       /\ \E i \in 1..Len(line) : line[i] = ","

\* The whole list of names after the keyword: "a, b" of "import a, b".
NameList(line) ==
    LET k == CHOOSE i \in 1..Len(line) : StartsWithAt(line, i, KwImport)
                                         /\ \A j \in 1..(i - 1) : IsSpace(line[j])
        b == SpaceRunEnd(line, k + Len(KwImport))
    IN Slice(line, b, Len(line) + 1)

ScannedLines == UNION {Range(TextLines(f)) : f \in readFiles}

\* Some file was scanned and every scanned line imports several names.
OnlyMultiImports ==
    /\ ScannedLines # {}
    /\ \A line \in ScannedLines : IsMultiImport(line)

\* C8's capture as stated: the pattern captures the whole list "a, b".
CapturesWholeList ==
    \A f \in readFiles :
        \A line \in Range(TextLines(f)) :
            NameList(line) \in Range(FindImports(FileOf(tree, f).text))

\* C8's consequence as stated: no name of a line importing several names,
\* a dotted first name included, leaves a manifest line.
C8_MultiImportLeavesNoLine ==
    (pc = "done" /\ OnlyMultiImports) => manifest.lines = <<>>

\* C8: of a line "import a, b" the pattern captures the names only up to the
\* first whitespace ("a," and not "a, b"; "a.b," of "import a.b, c"), so the
\* one candidate of the line is the segment of that capture before its first
\* ".", lowercased: "a," for "import a, b", which no installed package named
\* without a comma matches, but "a" for "import a.b, c", which leaves the line
\* "a==<version>" whenever a is installed. The names after the first whitespace
\* never become candidates.
C8_MultiImportFirstNameOnly ==
    LET candidates == {CandidateOf(ModuleOf(line)) : line \in ScannedLines}
    IN (pc = "done" /\ OnlyMultiImports) =>
          /\ imported = candidates
          /\ ~CapturesWholeList
          /\ \A f \in readFiles :
                \A i \in 1..Len(FindImports(FileOf(tree, f).text)) :
                    \A j \in 1..Len(FindImports(FileOf(tree, f).text)[i]) :
                        ~IsSpace(FindImports(FileOf(tree, f).text)[i][j])
          /\ Range(manifest.lines) =
                {LineFor(installed, c) : c \in {x \in candidates : HasMatch(installed, x)}}
          /\ \A c \in candidates :
                (\E i \in 1..Len(c) : c[i] = ",") => ~HasMatch(installed, c)

\* The whole project is the line "import a.b, c", a is installed, and the
\* manifest holds a's line.
C8_Witness ==
    /\ pc = "done"
    /\ OnlyMultiImports
    /\ imported = {<<"a">>}
    /\ Len(manifest.lines) = 1
    /\ SubSeq(manifest.lines[1], 1, 3) = <<"a", "=", "=">>

====
